---- MODULE Spec2Model ----
(***************************************************************************)
(* A model of sntp.go: one SNTP request/reply exchange over a connected    *)
(* UDP socket, the 48-byte packet codec (encoding/binary, big-endian) and  *)
(* the NTP timestamp conversion printTime.                                 *)
(*                                                                         *)
(* Machine integers keep their width.  A fixed-width integer is a sequence *)
(* of base-256 limbs, least significant first, in two's complement: a      *)
(* uint32 has 4 limbs, an int64 (and a time.Duration) has 8.  Values that  *)
(* always fit in 31 bits (a nanosecond field, a byte count) are plain      *)
(* integers.                                                               *)
(***************************************************************************)
EXTENDS Integers, Sequences, FiniteSets, TLC

(***************************************************************************)
(* Fixed-width arithmetic                                                  *)
(***************************************************************************)
Zeros(w) == [i \in 1..w |-> 0]

\* a small natural number as w limbs
RECURSIVE FromNat(_, _)
FromNat(n, w) == IF w = 0 THEN <<>> ELSE <<n % 256>> \o FromNat(n \div 256, w - 1)

IsNeg(a) == a[Len(a)] >= 128

\* widen to w limbs: zero extension (unsigned source) and sign extension
ZeroExt(a, w) == [i \in 1..w |-> IF i <= Len(a) THEN a[i] ELSE 0]

SignExt(a, w) == [i \in 1..w |-> IF i <= Len(a) THEN a[i] ELSE IF IsNeg(a) THEN 255 ELSE 0]

\* keep the low w limbs (conversion to a narrower type)
Trunc(a, w) == [i \in 1..w |-> a[i]]

RECURSIVE AddLimbs(_, _, _)
AddLimbs(a, b, carry) ==
    IF a = <<>> THEN <<>>
    ELSE LET s == Head(a) + Head(b) + carry
         IN  <<s % 256>> \o AddLimbs(Tail(a), Tail(b), s \div 256)

\* a + b and a - b, wrapping at the width of a
AddW(a, b) == AddLimbs(a, b, 0)

NotW(a) == [i \in 1..Len(a) |-> 255 - a[i]]

SubW(a, b) == AddLimbs(a, NotW(b), 1)

RECURSIVE MulLimb(_, _, _)
MulLimb(a, d, carry) ==
    IF a = <<>> THEN <<>>
    ELSE LET p == Head(a) * d + carry
         IN  <<p % 256>> \o MulLimb(Tail(a), d, p \div 256)

\* a * b, wrapping at the width of a (b has the same width)
RECURSIVE MulAcc(_, _, _)
MulAcc(a, b, k) ==
    IF k > Len(a) THEN Zeros(Len(a))
    ELSE AddW(Trunc(Zeros(k - 1) \o MulLimb(a, b[k], 0), Len(a)), MulAcc(a, b, k + 1))

MulW(a, b) == MulAcc(a, b, 1)

\* signed comparison of two values of the same width
LessS(a, b) ==
    LET w == Len(a) + 1
    IN  IsNeg(SubW(SignExt(a, w), SignExt(b, w)))

\* the value of a signed 4-limb integer, which fits a plain integer
Int32Value(a) ==
    (IF a[4] >= 128 THEN a[4] - 256 ELSE a[4]) * 16777216 + a[3] * 65536 + a[2] * 256 + a[1]

\* a small integer, negative or not, as w limbs
FromInt(n, w) == IF n >= 0 THEN FromNat(n, w) ELSE SubW(Zeros(w), FromNat(0 - n, w))

(***************************************************************************)
(* Program constants                                                       *)
(***************************************************************************)
\* const ntpEpochOffset = 2208988800 (0x83AA7E80), as an int64
ntpEpochOffset == <<128, 126, 170, 131, 0, 0, 0, 0>>

\* the constant 1e9 of printTime, of time.Unix and of time.Second
NanosPerSecond == 1000000000

\* conn.SetDeadline(time.Now().Add(5 * time.Second)): the deadline, in seconds
TimeoutSeconds == 5

\* req := &packet{Settings: 0x1B}
ReqSettings == 27

\* binary.Size(packet{}): 4 one-byte fields and 11 uint32 fields
PacketSize == 48

minDuration == <<0, 0, 0, 0, 0, 0, 0, 128>>

maxDuration == <<255, 255, 255, 255, 255, 255, 255, 127>>

(***************************************************************************)
(* The packet codec: binary.Write / binary.Read with binary.BigEndian      *)
(***************************************************************************)
ZeroPacket ==
    [Settings |-> 0, Stratum |-> 0, Poll |-> 0, Precision |-> 0,
     RootDelay |-> Zeros(4), RootDispersion |-> Zeros(4), ReferenceID |-> Zeros(4),
     RefTimeSec |-> Zeros(4), RefTimeFrac |-> Zeros(4),
     OrigTimeSec |-> Zeros(4), OrigTimeFrac |-> Zeros(4),
     RxTimeSec |-> Zeros(4), RxTimeFrac |-> Zeros(4),
     TxTimeSec |-> Zeros(4), TxTimeFrac |-> Zeros(4)]

NewRequest(settings) == [ZeroPacket EXCEPT !.Settings = settings]

\* binary.BigEndian.PutUint32: most significant byte first
PutUint32(u) == <<u[4], u[3], u[2], u[1]>>

\* the same 4 bytes read least significant byte first
Uint32AtLittleEndian(b, off) == <<b[off + 1], b[off + 2], b[off + 3], b[off + 4]>>

\* binary.BigEndian.Uint32 of the 4 bytes at 0-based offset off
Uint32At(b, off) == <<b[off + 4], b[off + 3], b[off + 2], b[off + 1]>>

\* an int8 field and its wire byte
Int8Byte(v) == IF v < 0 THEN v + 256 ELSE v

Int8At(b, off) == IF b[off + 1] >= 128 THEN b[off + 1] - 256 ELSE b[off + 1]

\* an encoder that writes Stratum before Settings
EncodeStratumFirst(p) ==
    <<p.Stratum, p.Settings, Int8Byte(p.Poll), Int8Byte(p.Precision)>>
      \o PutUint32(p.RootDelay) \o PutUint32(p.RootDispersion) \o PutUint32(p.ReferenceID)
      \o PutUint32(p.RefTimeSec) \o PutUint32(p.RefTimeFrac)
      \o PutUint32(p.OrigTimeSec) \o PutUint32(p.OrigTimeFrac)
      \o PutUint32(p.RxTimeSec) \o PutUint32(p.RxTimeFrac)
      \o PutUint32(p.TxTimeSec) \o PutUint32(p.TxTimeFrac)

\* the encoder of binary.Write: the fields in declaration order
Encode(p) ==
    <<p.Settings, p.Stratum, Int8Byte(p.Poll), Int8Byte(p.Precision)>>
      \o PutUint32(p.RootDelay) \o PutUint32(p.RootDispersion) \o PutUint32(p.ReferenceID)
      \o PutUint32(p.RefTimeSec) \o PutUint32(p.RefTimeFrac)
      \o PutUint32(p.OrigTimeSec) \o PutUint32(p.OrigTimeFrac)
      \o PutUint32(p.RxTimeSec) \o PutUint32(p.RxTimeFrac)
      \o PutUint32(p.TxTimeSec) \o PutUint32(p.TxTimeFrac)

\* the decoder of binary.Read, applied to a filled 48-byte buffer
Decode(b) ==
    [Settings |-> b[1], Stratum |-> b[2], Poll |-> Int8At(b, 2), Precision |-> Int8At(b, 3),
     RootDelay |-> Uint32At(b, 4), RootDispersion |-> Uint32At(b, 8),
     ReferenceID |-> Uint32At(b, 12),
     RefTimeSec |-> Uint32At(b, 16), RefTimeFrac |-> Uint32At(b, 20),
     OrigTimeSec |-> Uint32At(b, 24), OrigTimeFrac |-> Uint32At(b, 28),
     RxTimeSec |-> Uint32At(b, 32), RxTimeFrac |-> Uint32At(b, 36),
     TxTimeSec |-> Uint32At(b, 40), TxTimeFrac |-> Uint32At(b, 44)]

(***************************************************************************)
(* time.Time as (Unix seconds: int64, nanoseconds: 0..999999999) and       *)
(* time.Duration as an int64 count of nanoseconds                          *)
(***************************************************************************)
NoTime == [sec |-> Zeros(8), nsec |-> -1]

\* time.Unix(sec, nsec): nsec outside [0, 1e9) is carried into sec
Unix(sec, nsec) ==
    IF nsec < 0 \/ nsec >= NanosPerSecond
    THEN [sec |-> AddW(sec, FromInt(nsec \div NanosPerSecond, 8)),
          nsec |-> nsec % NanosPerSecond]
    ELSE [sec |-> sec, nsec |-> nsec]

\* t.Before(u)
Before(t, u) == LessS(t.sec, u.sec) \/ (t.sec = u.sec /\ t.nsec < u.nsec)

\* t.Add(n * time.Second)
AddSeconds(t, n) == [sec |-> AddW(t.sec, FromNat(n, 8)), nsec |-> t.nsec]

\* t - u in nanoseconds, exactly, as a 12-limb integer
ExactDiff(t, u) ==
    AddW(MulW(SubW(SignExt(t.sec, 12), SignExt(u.sec, 12)), FromNat(NanosPerSecond, 12)),
         FromInt(t.nsec - u.nsec, 12))

\* the operands of the subtraction exchanged
SubReversed(t, u) ==
    LET e == ExactDiff(u, t)
    IN  IF SignExt(Trunc(e, 8), 12) = e THEN Trunc(e, 8)
        ELSE IF IsNeg(e) THEN minDuration ELSE maxDuration

\* t.Sub(u) without monotonic readings: the difference, or minDuration /
\* maxDuration when it does not fit an int64 (the u.Add(d).Equal(t) check)
Sub(t, u) ==
    LET e == ExactDiff(t, u)
    IN  IF SignExt(Trunc(e, 8), 12) = e THEN Trunc(e, 8)
        ELSE IF IsNeg(e) THEN minDuration ELSE maxDuration

(***************************************************************************)
(* printTime(s, f uint32) time.Time                                        *)
(***************************************************************************)
\* secs := float64(s) - ntpEpochOffset; int64(secs).  Both operands are
\* below 2^53, so the float64 subtraction and the conversion are exact.
EpochSeconds(s) == SubW(ZeroExt(s, 8), ntpEpochOffset)

\* the product taken in 32 bits and widened afterwards: int64(f * 1e9) >> 32
FracNanos32(f) ==
    Int32Value(SubSeq(ZeroExt(MulW(f, FromNat(NanosPerSecond, 4)), 8), 5, 8))

\* nanos := (int64(f) * 1e9) >> 32: a 64-bit product, then an arithmetic
\* shift, whose result is the signed value of the upper 4 limbs
FracNanos(f) == Int32Value(SubSeq(MulW(ZeroExt(f, 8), FromNat(NanosPerSecond, 8)), 5, 8))

printTime(s, f) == Unix(EpochSeconds(s), FracNanos(f))

(***************************************************************************)
(* Bounds of the model and the inputs drawn from the environment           *)
(***************************************************************************)
\* clock ticks (of 2.5 s each) that may pass before the deadline is set
MaxStart == 1

\* datagrams the socket may deliver during one exchange
MaxDatagrams == 2

\* the local clock when main starts: 1970-01-01T00:00:00Z,
\* 2023-12-31T23:59:59.75Z, and an instant in the year 2514
BootTimes ==
    { [sec |-> Zeros(8), nsec |-> 0],
      [sec |-> <<127, 0, 146, 101, 0, 0, 0, 0>>, nsec |-> 750000000],
      [sec |-> <<0, 0, 0, 0, 4, 0, 0, 0>>, nsec |-> 1] }

\* (seconds, fraction) pairs a server may put in a reply, as uint32 limbs:
\* 3913056000.0, 3913056000.5, 2208988801.0, 2208988802.0, the least and
\* the greatest timestamp
Stamp2024 == <<<<0, 127, 60, 233>>, <<0, 0, 0, 0>>>>

Stamp2024Half == <<<<0, 127, 60, 233>>, <<0, 0, 0, 128>>>>

StampOne == <<<<129, 126, 170, 131>>, <<0, 0, 0, 0>>>>

StampTwo == <<<<130, 126, 170, 131>>, <<0, 0, 0, 0>>>>

StampLow == <<<<0, 0, 0, 0>>, <<255, 255, 255, 255>>>>

StampHigh == <<<<255, 255, 255, 255>>, <<255, 255, 255, 255>>>>

\* the fields of a reply other than the receive and transmit timestamps:
\* a stratum-2 server reply, and a stratum-0 reply with negative exponents
\* whose origin and reference timestamps differ from every receive stamp
ServerFill ==
    [ZeroPacket EXCEPT !.Settings = 28, !.Stratum = 2, !.Poll = 6, !.Precision = -20,
                       !.RootDelay = <<1, 2, 3, 4>>, !.ReferenceID = <<78, 73, 83, 84>>,
                       !.RefTimeSec = <<0, 127, 60, 233>>]

KissFill ==
    [ZeroPacket EXCEPT !.Settings = 228, !.Poll = -1, !.Precision = -128,
                       !.RootDispersion = <<255, 255, 255, 255>>,
                       !.RefTimeSec = <<9, 9, 9, 9>>, !.RefTimeFrac = <<7, 7, 7, 7>>,
                       !.OrigTimeSec = <<5, 5, 5, 5>>, !.OrigTimeFrac = <<3, 3, 3, 3>>]

ReplyPacket(fill, rx, tx) ==
    [fill EXCEPT !.RxTimeSec = rx[1], !.RxTimeFrac = rx[2],
                 !.TxTimeSec = tx[1], !.TxTimeFrac = tx[2]]

FullReplies ==
    { Encode(ReplyPacket(fill, st[1], st[2])) :
        fill \in {ServerFill, KissFill},
        st \in {<<Stamp2024, Stamp2024Half>>, <<StampOne, StampTwo>>, <<StampLow, StampHigh>>} }

\* datagrams shorter than a packet (empty, cut inside and after the receive
\* timestamp) and one longer than a packet
ShortLens == {0, 36, 44}

ShortReplies ==
    { SubSeq(Encode(ReplyPacket(ServerFill, Stamp2024, Stamp2024Half)), 1, n) : n \in ShortLens }

LongReplies == { Encode(ReplyPacket(KissFill, StampOne, StampTwo)) \o <<170, 187, 204, 221>> }

Datagrams == FullReplies \cup ShortReplies \cup LongReplies

(***************************************************************************)
(* State                                                                   *)
(***************************************************************************)
VARIABLES
    pc,        \* the statement of main about to run, or "done" / "failed"
    boot,      \* the local clock's reading when main starts
    clk,       \* ticks of 2.5 s elapsed on the local clock since then
    deadline,  \* the deadline of conn, NoTime while none is set
    timer,     \* ticks until the runtime's timer for that deadline fires, -1 while none runs
    req,       \* the request packet
    t1, t4,    \* the local send and receive instants
    sent,      \* the datagrams written to conn
    reads,     \* the datagrams conn.Read has returned, in order
    buf,       \* the bytes io.ReadFull has collected for binary.Read
    rsp,       \* the reply packet
    t2, t3,    \* the server's receive and transmit instants
    out,       \* standard output: the values printed, in order
    err,       \* the failure passed to log.Fatal, "" while none
    closed,    \* conn.Close() has run
    steps,     \* history: the steps taken, in order
    codecPc, codecIn, codecBuf, codecOut,   \* the codec round trip
    convPc, convIn, convOut                 \* the timestamp conversion

exchVars == <<pc, boot, clk, deadline, timer, req, t1, t4, sent, reads, buf, rsp, t2, t3,
              out, err, closed, steps>>

harnessVars == <<codecPc, codecIn, codecBuf, codecOut, convPc, convIn, convOut>>

vars == <<exchVars, harnessVars>>

\* the local clock c ticks of 2.5 s after boot
ClockAt(c) ==
    Unix(AddW(boot.sec, FromNat((5 * c) \div 2, 8)), boot.nsec + 500000000 * (c % 2))

\* time.Now()
Now == ClockAt(clk)

\* the time to the deadline, 5 s, in clock ticks
TimerTicks == (2 * TimeoutSeconds) \div 5

\* the timer of the deadline has fired: conn.Read and conn.Write return a timeout
Expired == timer = 0

ExchInit ==
    /\ pc = "setDeadline"
    /\ boot \in BootTimes
    /\ clk = 0
    /\ deadline = NoTime
    /\ timer = -1
    /\ req = ZeroPacket
    /\ t1 = NoTime /\ t4 = NoTime /\ t2 = NoTime /\ t3 = NoTime
    /\ sent = <<>> /\ reads = <<>> /\ buf = <<>>
    /\ rsp = ZeroPacket
    /\ out = <<>>
    /\ err = ""
    /\ closed = FALSE
    /\ steps = <<>>

HarnessIdle ==
    /\ codecPc = "idle" /\ codecIn = ReqSettings /\ codecBuf = <<>> /\ codecOut = ZeroPacket
    /\ convPc = "idle" /\ convIn = Stamp2024 /\ convOut = NoTime

Init == ExchInit /\ HarnessIdle

(***************************************************************************)
(* main                                                                    *)
(***************************************************************************)
\* log.Fatal / log.Fatalf: the process exits, deferred calls do not run
Fatal(e) ==
    /\ err' = e
    /\ pc' = "failed"

\* conn.SetDeadline(time.Now().Add(5 * time.Second)) succeeds
SetDeadlineOk ==
    /\ pc = "setDeadline"
    /\ deadline' = AddSeconds(Now, TimeoutSeconds)
    /\ steps' = Append(steps, "deadline")
    /\ pc' = "build"
    /\ UNCHANGED <<boot, clk, req, t1, t4, sent, reads, buf, rsp, t2, t3, out, err, closed>>
    /\ timer' = TimerTicks
    /\ UNCHANGED harnessVars

\* conn.SetDeadline fails
SetDeadlineFail ==
    /\ pc = "setDeadline"
    /\ Fatal("set-deadline")
    /\ UNCHANGED <<boot, clk, deadline, timer, req, t1, t4, sent, reads, buf, rsp, t2, t3, out,
                   closed, steps>>
    /\ UNCHANGED harnessVars

\* req := &packet{Settings: 0x1B}; fmt.Println(time.Now())
BuildRequest ==
    /\ pc = "build"
    /\ req' = NewRequest(ReqSettings)
    /\ out' = Append(out, <<"now", Now>>)
    /\ pc' = "stampT1"
    /\ UNCHANGED <<boot, clk, deadline, timer, t1, t4, sent, reads, buf, rsp, t2, t3, err, closed,
                   steps>>
    /\ UNCHANGED harnessVars

\* t1 := time.Now()
StampT1 ==
    /\ pc = "stampT1"
    /\ t1' = Now
    /\ steps' = Append(steps, "t1")
    /\ pc' = "write"
    /\ UNCHANGED <<boot, clk, deadline, timer, req, t4, sent, reads, buf, rsp, t2, t3, out, err,
                   closed>>
    /\ UNCHANGED harnessVars

\* the write followed by a second reading of t1
WriteThenStamp ==
    /\ pc = "write"
    /\ ~Expired
    /\ sent' = Append(sent, Encode(req))
    /\ t1' = Now
    /\ steps' = steps \o <<"write", "t1">>
    /\ pc' = "read"
    /\ UNCHANGED <<boot, clk, deadline, timer, req, t4, reads, buf, rsp, t2, t3, out, err, closed>>
    /\ UNCHANGED harnessVars

\* binary.Write(conn, binary.BigEndian, req): one conn.Write of the encoding
WriteOk ==
    /\ pc = "write"
    /\ ~Expired
    /\ sent' = Append(sent, Encode(req))
    /\ steps' = Append(steps, "write")
    /\ pc' = "read"
    /\ UNCHANGED <<boot, clk, deadline, timer, req, t1, t4, reads, buf, rsp, t2, t3, out, err,
                   closed>>
    /\ UNCHANGED harnessVars

\* conn.Write fails: the deadline has passed, or the transport reports an error
WriteFail ==
    /\ pc = "write"
    /\ Fatal(IF Expired THEN "send-timeout" ELSE "send-error")
    /\ UNCHANGED <<boot, clk, deadline, timer, req, t1, t4, sent, reads, buf, rsp, t2, t3, out,
                   closed, steps>>
    /\ UNCHANGED harnessVars

\* rsp := &packet{}; binary.Read(conn, binary.BigEndian, rsp): io.ReadFull
\* calls conn.Read until 48 bytes are collected.  One conn.Read returns the
\* next datagram d, cut to the room left in the buffer; when the buffer is
\* full it is decoded into rsp.
RecvDatagram(d) ==
    /\ pc = "read"
    /\ ~Expired
    /\ Len(reads) < MaxDatagrams
    /\ LET room == PacketSize - Len(buf)
           n    == IF Len(d) < room THEN Len(d) ELSE room
           got  == buf \o SubSeq(d, 1, n)
       IN  /\ buf' = got
           /\ reads' = Append(reads, d)
           /\ steps' = Append(steps, "read")
           /\ IF Len(got) = PacketSize
              THEN rsp' = Decode(got) /\ pc' = "stampT4"
              ELSE UNCHANGED <<rsp, pc>>
    /\ UNCHANGED <<boot, clk, deadline, timer, req, t1, t4, sent, t2, t3, out, err, closed>>
    /\ UNCHANGED harnessVars

\* a timeout reported whether or not the deadline has passed
ReadTimeoutEarly ==
    /\ pc = "read"
    /\ Fatal("read-timeout")
    /\ UNCHANGED <<boot, clk, deadline, timer, req, t1, t4, sent, reads, buf, rsp, t2, t3, out,
                   closed, steps>>
    /\ UNCHANGED harnessVars

\* conn.Read returns a timeout error once the deadline has passed
ReadTimeout ==
    /\ pc = "read"
    /\ Expired
    /\ Fatal("read-timeout")
    /\ UNCHANGED <<boot, clk, deadline, timer, req, t1, t4, sent, reads, buf, rsp, t2, t3, out,
                   closed, steps>>
    /\ UNCHANGED harnessVars

\* the error of binary.Read dropped: main goes on with rsp as it is
ReadErrorIgnored ==
    /\ pc = "read"
    /\ ~Expired
    /\ pc' = "stampT4"
    /\ UNCHANGED <<boot, clk, deadline, timer, req, t1, t4, sent, reads, buf, rsp, t2, t3, out,
                   err, closed, steps>>
    /\ UNCHANGED harnessVars

\* conn.Read returns another error of the transport (e.g. connection refused)
ReadError ==
    /\ pc = "read"
    /\ ~Expired
    /\ Fatal("read-error")
    /\ UNCHANGED <<boot, clk, deadline, timer, req, t1, t4, sent, reads, buf, rsp, t2, t3, out,
                   closed, steps>>
    /\ UNCHANGED harnessVars

\* t4 := time.Now()
StampT4 ==
    /\ pc = "stampT4"
    /\ t4' = Now
    /\ steps' = Append(steps, "t4")
    /\ pc' = "report"
    /\ UNCHANGED <<boot, clk, deadline, timer, req, t1, sent, reads, buf, rsp, t2, t3, out, err,
                   closed>>
    /\ UNCHANGED harnessVars

\* printTime of the origin, reference, receive and transmit timestamps (the
\* last two give t2 and t3); fmt.Println(t2.Sub(t1)); fmt.Println(t3.Sub(t4));
\* main returns and the deferred conn.Close() runs
Report ==
    /\ pc = "report"
    /\ t2' = printTime(rsp.RxTimeSec, rsp.RxTimeFrac)
    /\ t3' = printTime(rsp.TxTimeSec, rsp.TxTimeFrac)
    /\ out' = out \o << <<"time", printTime(rsp.OrigTimeSec, rsp.OrigTimeFrac)>>,
                        <<"time", printTime(rsp.RefTimeSec, rsp.RefTimeFrac)>>,
                        <<"time", t2'>>, <<"time", t3'>>,
                        <<"duration", Sub(t2', t1)>>, <<"duration", Sub(t3', t4)>> >>
    /\ closed' = TRUE
    /\ steps' = Append(steps, "report")
    /\ pc' = "done"
    /\ UNCHANGED <<boot, clk, deadline, timer, req, t1, t4, sent, reads, buf, rsp, err>>
    /\ UNCHANGED harnessVars

\* the local clock advances by one tick while main still has a clock
\* reading or a deadline check ahead of it, and the timer of the deadline
\* runs down with it
Tick ==
    /\ pc \in {"setDeadline", "build", "stampT1", "write", "read", "stampT4"}
    /\ IF timer < 0 THEN clk < MaxStart ELSE ~Expired
    /\ clk' = clk + 1
    /\ timer' = IF timer > 0 THEN timer - 1 ELSE timer
    /\ UNCHANGED <<pc, boot, deadline, req, t1, t4, sent, reads, buf, rsp, t2, t3, out, err,
                   closed, steps>>
    /\ UNCHANGED harnessVars

Receive == \E d \in Datagrams : RecvDatagram(d)

Next ==
    \/ SetDeadlineOk
    \/ SetDeadlineFail
    \/ BuildRequest
    \/ StampT1
    \/ WriteOk
    \/ WriteFail
    \/ Receive
    \/ ReadTimeout
    \/ ReadError
    \/ StampT4
    \/ Report
    \/ Tick

Spec == Init /\ [][Next]_vars

\* Time passes, and the runtime's deadline timer wakes a blocked conn.Read.
FairSpec ==
    /\ Spec
    /\ WF_vars(Tick)
    /\ WF_vars(ReadTimeout)

(***************************************************************************)
(* The codec round trip on its own: encode a request with any settings     *)
(* byte, decode the bytes; with the byte main uses, main then runs         *)
(***************************************************************************)
SettingsBytes == 0..255

CodecInit ==
    /\ ExchInit
    /\ codecPc = "start" /\ codecIn \in SettingsBytes
    /\ codecBuf = <<>> /\ codecOut = ZeroPacket
    /\ convPc = "idle" /\ convIn = Stamp2024 /\ convOut = NoTime

CodecEncode ==
    /\ codecPc = "start"
    /\ codecBuf' = Encode(NewRequest(codecIn))
    /\ codecPc' = "encoded"
    /\ UNCHANGED <<codecIn, codecOut, convPc, convIn, convOut>>
    /\ UNCHANGED exchVars

CodecDecode ==
    /\ codecPc = "encoded"
    /\ codecOut' = Decode(codecBuf)
    /\ codecPc' = "decoded"
    /\ UNCHANGED <<codecIn, codecBuf, convPc, convIn, convOut>>
    /\ UNCHANGED exchVars

CodecMain ==
    /\ codecPc = "decoded"
    /\ codecIn = ReqSettings
    /\ Next

CodecNext == CodecEncode \/ CodecDecode \/ CodecMain

CodecSpec == CodecInit /\ [][CodecNext]_vars

(***************************************************************************)
(* printTime on its own, over boundary values of seconds and fraction      *)
(***************************************************************************)
SecondsInputs ==
    { <<0, 0, 0, 0>>, <<1, 0, 0, 0>>, <<127, 126, 170, 131>>, <<128, 126, 170, 131>>,
      <<129, 126, 170, 131>>, <<0, 127, 60, 233>>, <<255, 255, 255, 127>>,
      <<255, 255, 255, 255>> }

FractionInputs ==
    { <<0, 0, 0, 0>>, <<1, 0, 0, 0>>, <<4, 0, 0, 0>>, <<5, 0, 0, 0>>, <<0, 0, 0, 64>>,
      <<255, 255, 255, 127>>, <<0, 0, 0, 128>>, <<254, 255, 255, 255>>,
      <<255, 255, 255, 255>> }

ConvInit ==
    /\ ExchInit
    /\ codecPc = "idle" /\ codecIn = ReqSettings /\ codecBuf = <<>> /\ codecOut = ZeroPacket
    /\ convPc = "start" /\ convIn \in SecondsInputs \X FractionInputs
    /\ convOut = NoTime

ConvApply ==
    /\ convPc = "start"
    /\ convOut' = printTime(convIn[1], convIn[2])
    /\ convPc' = "done"
    /\ UNCHANGED <<codecPc, codecIn, codecBuf, codecOut, convIn>>
    /\ UNCHANGED exchVars

ConvNext == ConvApply

ConvSpec == ConvInit /\ [][ConvNext]_vars

(***************************************************************************)
(* Properties                                                              *)
(***************************************************************************)
\* a <= b for signed values of one width
LeqS(a, b) == ~LessS(b, a)

\* 2208988800, the seconds from 1900-01-01 to 1970-01-01
NtpUnixGap == <<128, 126, 170, 131>>

\* C7: for every uint32 seconds s and fraction f, printTime returns
\* epochSeconds with epochSeconds + 2208988800 = s and nanoseconds n with
\* n * 2^32 <= f * 10^9 < (n + 1) * 2^32, all taken in exact arithmetic, so
\* that 0 <= n < 10^9; f = 0xFFFFFFFF gives 999999999 and f = 0 gives 0.
C7_Conversion ==
    convPc = "done" =>
        LET s == convIn[1]
            f == convIn[2]
            n == convOut.nsec
            prod == MulW(ZeroExt(f, 12), FromNat(1000000000, 12))
        IN  /\ AddW(SignExt(convOut.sec, 12), ZeroExt(NtpUnixGap, 12)) = ZeroExt(s, 12)
            /\ n >= 0 /\ n < 1000000000
            /\ LeqS(Zeros(4) \o FromNat(n, 8), prod)
            /\ LessS(prod, Zeros(4) \o FromNat(n + 1, 8))
            /\ (f = <<255, 255, 255, 255>> => n = 999999999)
            /\ (f = <<0, 0, 0, 0>> => n = 0)

C7_Witness ==
    /\ convPc = "done"
    /\ convIn = << <<0, 127, 60, 233>>, <<255, 255, 255, 255>> >>
    /\ convOut = [sec |-> <<128, 0, 146, 101, 0, 0, 0, 0>>, nsec |-> 999999999]

\* C8: for any settings byte s the encoding of a request with s is 48 bytes,
\* s first and 47 zero bytes after it; decoding those bytes gives Settings = s
\* and the other 14 fields zero; the request main sends is the one for 0x1B.
C8_RoundTrip ==
    /\ codecPc \in {"encoded", "decoded"} =>
          /\ Len(codecBuf) = 48
          /\ codecBuf[1] = codecIn
          /\ \A i \in 2..48 : codecBuf[i] = 0
    /\ codecPc = "decoded" =>
          /\ codecOut.Settings = codecIn
          /\ codecOut.Stratum = 0 /\ codecOut.Poll = 0 /\ codecOut.Precision = 0
          /\ codecOut.RootDelay = <<0, 0, 0, 0>>
          /\ codecOut.RootDispersion = <<0, 0, 0, 0>>
          /\ codecOut.ReferenceID = <<0, 0, 0, 0>>
          /\ codecOut.RefTimeSec = <<0, 0, 0, 0>> /\ codecOut.RefTimeFrac = <<0, 0, 0, 0>>
          /\ codecOut.OrigTimeSec = <<0, 0, 0, 0>> /\ codecOut.OrigTimeFrac = <<0, 0, 0, 0>>
          /\ codecOut.RxTimeSec = <<0, 0, 0, 0>> /\ codecOut.RxTimeFrac = <<0, 0, 0, 0>>
          /\ codecOut.TxTimeSec = <<0, 0, 0, 0>> /\ codecOut.TxTimeFrac = <<0, 0, 0, 0>>
    /\ \A i \in 1..Len(sent) : sent[i] = <<27>> \o [j \in 1..47 |-> 0]

C8_Witness ==
    /\ codecPc = "decoded" /\ codecIn = 27 /\ codecOut.Settings = 27
    /\ Len(sent) = 1

\* the state of the exchange
ExchState ==
    IF pc = "done" THEN "Complete"
    ELSE IF pc = "failed" THEN "Failed"
    ELSE IF pc = "setDeadline" THEN "NotStarted"
    ELSE "AwaitingReply"

Terminal == pc \in {"done", "failed"}

\* the datagrams read, one after the other, and the first 48 bytes of that
RECURSIVE Concat(_)
Concat(ds) == IF ds = <<>> THEN <<>> ELSE Head(ds) \o Concat(Tail(ds))

ReceivedBytes ==
    LET all == Concat(reads)
    IN  IF Len(all) > 48 THEN SubSeq(all, 1, 48) ELSE all

\* the uint32 whose most significant byte is byte number i (from 0) of b
BigEndianAt(b, i) == <<b[i + 4], b[i + 3], b[i + 2], b[i + 1]>>

\* the durations printed, in order
Durations == SelectSeq(out, LAMBDA o : o[1] = "duration")

\* a time in nanoseconds since the Unix epoch, exactly (12 limbs)
Nanos(t) ==
    AddW(MulW(SignExt(t.sec, 12), FromNat(1000000000, 12)), FromNat(t.nsec, 12))

Wide(d) == SignExt(d, 12)

\* C1: the exchange moves only NotStarted -> AwaitingReply -> Complete or
\* AwaitingReply -> Failed (a failure to set the deadline fails the exchange
\* as it starts); every failure, a reply datagram shorter than 48 bytes
\* included, leads to Failed; no step is taken in Complete or in Failed.
C1_StateMachine ==
    [][ /\ ~Terminal
        /\ \/ ExchState' = ExchState
           \/ <<ExchState, ExchState'>> \in
                 { <<"NotStarted", "AwaitingReply">>, <<"AwaitingReply", "Complete">>,
                   <<"AwaitingReply", "Failed">> }
           \/ ExchState = "NotStarted" /\ ExchState' = "Failed" /\ err' = "set-deadline"
        /\ (err' # err => ExchState' = "Failed")
        /\ (Len(reads') > Len(reads) /\ Len(reads'[Len(reads')]) < 48
               => ExchState' = "Failed") ]_vars

\* C2: at most one request is written and at most one datagram is read.
C2_OneWriteOneRead == Len(sent) <= 1 /\ Len(reads) <= 1

\* C3: a timeout is reported only once the deadline, which lies 5 s after
\* the clock reading taken when it was set, has passed; the exchange
\* completes only if a datagram was read; and a read on a channel that stays
\* silent (no datagram, no transport error) ends in Failed with a timeout.
C3_Timeout ==
    /\ [](deadline # NoTime =>
            /\ LeqS(AddW(boot.sec, <<5, 0, 0, 0, 0, 0, 0, 0>>), deadline.sec)
            /\ LeqS(deadline.sec, AddW(Now.sec, <<5, 0, 0, 0, 0, 0, 0, 0>>)))
    /\ [](Expired <=> (deadline # NoTime /\ ~Before(Now, deadline)))
    /\ [](err = "read-timeout" => pc = "failed" /\ ~Before(Now, deadline))
    /\ [](pc = "done" => reads # <<>>)
    /\ ((pc = "read" /\ reads = <<>>)
          ~> (reads # <<>> \/ err = "read-error" \/ (pc = "failed" /\ err = "read-timeout")))

C3_Witness ==
    /\ pc = "failed" /\ err = "read-timeout" /\ reads = <<>>
    /\ Len(sent) = 1 /\ Now = deadline

\* C4: when the first datagram read is shorter than 48 bytes the exchange
\* fails with a malformed-packet error, and no reply packet or server
\* timestamp is derived from it.
C4_ShortReplyRejected ==
    (reads # <<>> /\ Len(reads[1]) < 48) =>
        /\ rsp = ZeroPacket /\ t2 = NoTime /\ t3 = NoTime
        /\ (Terminal => pc = "failed" /\ err = "malformed-packet")

\* C5: values derived from the reply are printed only by a completed
\* exchange, in which T1, T2, T3, T4 are all set, the 48 bytes decoded are
\* bytes that were received, and T2 and T3 are the conversions of bytes
\* 32-39 and 40-47 of them; a failed exchange prints none and sets no T2, T3.
C5_AllOrNothing ==
    /\ (\E i \in 1..Len(out) : out[i][1] \in {"time", "duration"}) => pc = "done"
    /\ pc = "done" =>
          /\ t1 # NoTime /\ t2 # NoTime /\ t3 # NoTime /\ t4 # NoTime
          /\ Len(buf) = 48 /\ buf = ReceivedBytes
          /\ t2 = printTime(BigEndianAt(ReceivedBytes, 32), BigEndianAt(ReceivedBytes, 36))
          /\ t3 = printTime(BigEndianAt(ReceivedBytes, 40), BigEndianAt(ReceivedBytes, 44))
          /\ Len(Durations) = 2
    /\ pc = "failed" => t2 = NoTime /\ t3 = NoTime /\ t4 = NoTime /\ rsp = ZeroPacket

C5_Witness ==
    /\ pc = "done" /\ Len(reads) = 1 /\ Len(out) = 7
    /\ t2 = [sec |-> <<128, 0, 146, 101, 0, 0, 0, 0>>, nsec |-> 0]

Saturated(d, e) ==
    IF LessS(e, Wide(minDuration)) THEN d = minDuration
    ELSE IF LessS(Wide(maxDuration), e) THEN d = maxDuration
    ELSE Wide(d) = e

StepRank(l) ==
    CASE l = "deadline" -> 1 [] l = "t1" -> 2 [] l = "write" -> 3
      [] l = "read" -> 4 [] l = "t4" -> 5 [] l = "report" -> 6

\* C10: the steps taken are, in this order, the deadline set, T1 recorded,
\* the request written, the reply read (one conn.Read after another), T4
\* recorded, the timestamps converted, none of them skipped and none but
\* the read repeated; T1 is set when a request has been written; T4 is set
\* only after a read that filled the packet without error; and T1 <= T4.
C10_StepOrder ==
    /\ \A i \in 1..Len(steps) :
          /\ i = 1 => steps[i] = "deadline"
          /\ i > 1 =>
                \/ StepRank(steps[i]) = StepRank(steps[i - 1]) + 1
                \/ steps[i] = "read" /\ steps[i - 1] = "read"
    /\ sent # <<>> => t1 # NoTime /\ deadline # NoTime
    /\ t1 # NoTime <=> (\E i \in 1..Len(steps) : steps[i] = "t1")
    /\ t4 # NoTime =>
          /\ Len(buf) = 48 /\ err = "" /\ reads # <<>> /\ sent # <<>>
          /\ ~Before(t4, t1)
    /\ pc = "done" => t4 # NoTime /\ steps[Len(steps)] = "report"

C10_Witness ==
    /\ pc = "done"
    /\ steps = <<"deadline", "t1", "write", "read", "t4", "report">>
    /\ Before(t1, t4)
====
